---- MODULE Spec2Model ----
(***************************************************************************)
(* Model of package errs (github.com/sttk/errs): the Err value (Ok, New,   *)
(* IsOk, IsNotOk, IfOkThen) and the notification registry built with the   *)
(* tag github.sttk.errs.notify (AddSyncErrHandler, AddAsyncErrHandler,     *)
(* FixErrHandlers, notifyErr).                                             *)
(*                                                                         *)
(* One calling goroutine executes the public operations one after the      *)
(* other; pc is its position inside New/notifyErr.  The goroutines         *)
(* started by `go item.handler(e, tm)` run concurrently with it.           *)
(***************************************************************************)
EXTENDS Integers, Sequences, FiniteSets, TLC

\* ------------------------------------------------------------------ bounds
MaxItems == 3      \* errHandlerListItem values ever allocated
MaxNew   == 2      \* calls of New after FixErrHandlers
MaxChain == 3      \* IfOkThen calls chained after one Ok()/New()
MaxThreads == 2    \* goroutines calling Add...ErrHandler/FixErrHandlers at once
MaxMade  == 3      \* Err values the program holds in variables at once

\* ------------------------------------------------------------------ values
\* Go's nil pointer (errHandlerList{nil, nil}); items are addressed 1, 2, ...
NilPtr == 0

\* Go's nil interface value (reason any, cause error).
Nil == "nil"

\* The handler functions a program registers.  The registry never inspects a
\* handler, so the program is taken to pass a different function literal in
\* each call, as the tests do: the n-th call passes Closure(n).
Closure(n) == <<"func", n>>

\* Non-nil reasons and non-nil causes a caller passes.
Reasons == {"InvalidValue"}
Errors  == {"def"}

\* The variadic cause argument: absent, one cause, or more than one.
CauseArgs ==
    {<<>>} \cup {<<c>> : c \in Errors \cup {Nil}}
           \cup {<<c, d>> : c \in Errors \cup {Nil}, d \in Errors}

\* Call sites of New: the file path and line runtime.Caller(1) reports.
CallSites ==
    { [file |-> <<"errs", "err_test.go">>, line |-> 52],
      [file |-> <<"notify_test.go">>,      line |-> 214] }

\* filepath.Base on a path held as its sequence of elements.
Base(path) == IF path = <<>> THEN "." ELSE path[Len(path)]

\* Ok(): return Err{}
Ok == [reason |-> Nil, cause |-> Nil, file |-> "", line |-> 0]

\* Mutant: New drops the cause.
NewErr_NoCause(reason, cause, site, captured) ==
    [reason |-> reason,
     cause  |-> Nil,
     file   |-> IF captured THEN Base(site.file) ELSE "",
     line   |-> IF captured THEN site.line ELSE 0]

\* Mutant: New gives up and returns the zero value when the caller's
\* location cannot be captured.
NewErr_FailsWithoutCaller(reason, cause, site, captured) ==
    IF captured
    THEN [reason |-> reason,
          cause  |-> IF Len(cause) > 0 THEN cause[1] ELSE Nil,
          file   |-> Base(site.file),
          line   |-> site.line]
    ELSE [reason |-> Nil, cause |-> Nil, file |-> "", line |-> 0]

\* Mutant: New with a nil reason returns the zero value, as Ok does.
NewErr_NilIsOk(reason, cause, site, captured) ==
    IF reason = Nil
    THEN [reason |-> Nil, cause |-> Nil, file |-> "", line |-> 0]
    ELSE [reason |-> reason,
          cause  |-> IF Len(cause) > 0 THEN cause[1] ELSE Nil,
          file   |-> IF captured THEN Base(site.file) ELSE "",
          line   |-> IF captured THEN site.line ELSE 0]

\* New, lines 231-242: the value built before notifyErr is called.
\* captured is the ok result of runtime.Caller(1).
NewErr(reason, cause, site, captured) ==
    [reason |-> reason,
     cause  |-> IF Len(cause) > 0 THEN cause[1] ELSE Nil,
     file   |-> IF captured THEN Base(site.file) ELSE "",
     line   |-> IF captured THEN site.line ELSE 0]

\* The accessors Reason, File, Line, Unwrap and Cause.
Reason(v) == v.reason

File(v) == v.file

Line(v) == v.line

Unwrap(v) == v.cause

Cause(v) == v.cause

\* Mutant: only the zero value is ok.
IsOk_OnlyZeroValue(e) ==
    e.reason = Nil /\ e.cause = Nil /\ e.file = "" /\ e.line = 0

\* Mutant: a value that has a cause is not ok.
IsOk_NoCause(e) == e.reason = Nil /\ e.cause = Nil

IsOk(e) == e.reason = Nil

IsNotOk(e) == e.reason # Nil

\* The functions handed to IfOkThen: one returns Ok(), the others return
\* New(reason) from their own call site.
NoFn == [kind |-> "none", reason |-> Nil]
Fns  == {[kind |-> "ok", reason |-> Nil]}
          \cup {[kind |-> "new", reason |-> r] : r \in Reasons \cup {Nil}}
NotifySite == [file |-> <<"notify_test.go">>, line |-> 214]
NoArgs == [reason |-> Nil, cause |-> <<>>, site |-> [file |-> <<>>, line |-> 0],
           captured |-> FALSE]
FnSite == [file |-> <<"errs", "err_test.go">>, line |-> 454]
TestSite == [file |-> <<"errs", "err_test.go">>, line |-> 60]

\* ---------------------------------------------------------------- Go values
\* The Go values a program hands to New as reason or cause, named by the
\* expression that makes them.  Of each: its dynamic type, whether it is a
\* pointer (and a nil one), the kind, package path, type name and fields of
\* the value reflect sees behind the pointer, what fmt prints for it with %v,
\* whether == may compare two values of the dynamic type, and, for an error,
\* what its Error method returns.
Field(name, exported, text) ==
    [name |-> name, exported |-> exported, text |-> text]

Shape(dyn, ptr, kind, pkg, type, fields, text, comparable, isError, msg) ==
    [dyn |-> dyn, ptr |-> ptr, kind |-> kind, pkg |-> pkg, type |-> type,
     fields |-> fields, text |-> text, comparable |-> comparable,
     isError |-> isError, msg |-> msg]

PkgErrs == "github.com/sttk/errs"
PkgTest == "github.com/sttk/errs_test"

InvalidValueFields ==
    <<Field("Name", TRUE, "foo"), Field("Value", TRUE, "abc")>>

Shapes ==
    [x \in {"abc"} |->
        Shape("string", "no", "string", "", "string", <<>>, "abc",
              TRUE, FALSE, "")]
    @@ [x \in {"InvalidValue{foo, abc}"} |->
        Shape("errs_test.InvalidValue", "no", "struct", PkgTest,
              "InvalidValue", InvalidValueFields, "{foo abc}",
              TRUE, FALSE, "")]
    @@ [x \in {"&InvalidValue{foo, abc} (1)", "&InvalidValue{foo, abc} (2)"} |->
        Shape("*errs_test.InvalidValue", "yes", "struct", PkgTest,
              "InvalidValue", InvalidValueFields, "{foo abc}",
              TRUE, FALSE, "")]
    @@ [x \in {"(*InvalidValue)(nil)"} |->
        Shape("*errs_test.InvalidValue", "nil", "invalid", "", "", <<>>, "",
              TRUE, FALSE, "")]
    @@ [x \in {"&count"} |->
        Shape("*int", "yes", "int", "", "int", <<>>, "123",
              TRUE, FALSE, "")]
    @@ [x \in {"&reason (nil error)"} |->
        Shape("*error", "yes", "interface", "", "error", <<>>, "<nil>",
              TRUE, FALSE, "")]
    @@ [x \in {"123"} |->
        Shape("int", "no", "int", "", "int", <<>>, "123",
              TRUE, FALSE, "")]
    @@ [x \in {"[]string{a}"} |->
        Shape("[]string", "no", "slice", "", "", <<>>, "[a]",
              FALSE, FALSE, "")]
    @@ [x \in {"NoFields{}"} |->
        Shape("errs_test.NoFields", "no", "struct", PkgTest,
              "NoFields", <<>>, "{}",
              TRUE, FALSE, "")]
    @@ [x \in {"hidden{1}"} |->
        Shape("errs_test.hidden", "no", "struct", PkgTest,
              "hidden", <<Field("code", FALSE, "1")>>, "{1}",
              TRUE, FALSE, "")]
    @@ [x \in {"Mixed{1, foo, 2}"} |->
        Shape("errs_test.Mixed", "no", "struct", PkgTest,
              "Mixed", <<Field("code", FALSE, "1"), Field("Name", TRUE, "foo"),
                         Field("detail", FALSE, "2")>>, "{1 foo 2}",
              TRUE, FALSE, "")]
    @@ [x \in {"errors.New(def) (1)", "errors.New(def) (2)"} |->
        Shape("*errors.errorString", "yes", "struct", "errors",
              "errorString", <<Field("s", FALSE, "def")>>, "def",
              TRUE, TRUE, "def")]
    @@ [x \in {"InvalidValueError{bar, def}"} |->
        Shape("errs_test.InvalidValueError", "no", "struct", PkgTest,
              "InvalidValueError",
              <<Field("Name", TRUE, "bar"), Field("Value", TRUE, "def")>>,
              "InvalidValue { Name: bar, Value: def }",
              TRUE, TRUE, "InvalidValue { Name: bar, Value: def }")]

\* The program's variables of type Err, in the order it assigns them.
VarNames == <<"err1", "err2", "err3", "err4">>

\* An Err held in an interface: reflect sees the struct with its four
\* unexported fields.
ErrShape ==
    Shape("errs.Err", "no", "struct", PkgErrs, "Err",
          <<Field("reason", FALSE, ""), Field("cause", FALSE, ""),
            Field("file", FALSE, ""), Field("line", FALSE, "")>>, "",
          TRUE, TRUE, "")

VARIABLES
    heap,                \* the allocated errHandlerListItem values
    syncErrHandlers,     \* errHandlerList{head, last}
    asyncErrHandlers,    \* errHandlerList{head, last}
    isErrHandlersFixed,
    pc,                  \* position of the calling goroutine
    e,                   \* New's local e / notifyErr's parameter
    tm,                  \* notifyErr's local tm
    item,                \* notifyErr's loop variable
    inFn,                \* the IfOkThen function New is running in, or NoFn
    now,                 \* the wall clock
    calls,               \* number of New calls made after FixErrHandlers
    goroutines,          \* the goroutines started by `go`, in starting order
    ran,                 \* the goroutines (by position) whose handler has run
    syncLog,             \* calls and returns of synchronous handlers
    chain,               \* results of the statement's Ok()/New().IfOkThen()... expression
    fnLog,               \* functions invoked by IfOkThen in the current expression
    newArgs,             \* the arguments of the statement's latest New call
    regLog,              \* the Add...ErrHandler calls made before FixErrHandlers
    lastOp,              \* the public operation the caller entered last
    kept,                \* an Err the program keeps in a variable of its own
    query,               \* the program's latest call on an Err it has
    threads,             \* further goroutines of the program inside Add/Fix
    made                 \* the Err values the program holds in err1, err2, ...

registry == <<heap, syncErrHandlers, asyncErrHandlers, isErrHandlersFixed>>
frame    == <<pc, e, tm, item, inFn>>
logs     == <<goroutines, ran, syncLog>>
expr     == <<chain, fnLog, newArgs>>
caller   == <<kept, query, threads, made>>
vars     == <<registry, frame, logs, expr, now, calls, lastOp, regLog, caller>>

\* The program keeps no Err yet, and has made no call on one.
NoKept  == [args |-> NoArgs, e |-> Ok, held |-> FALSE]
NoQuery == [op |-> "none"]

\* Goroutines of the program that call into the registry on their own, and
\* one of them before its first call. Of a goroutine inside Add...ErrHandler:
\* the line it is at, the list of the function, the handler argument, the
\* local variable last, and the value it has just loaded. wroteFlag: the
\* goroutine has called FixErrHandlers. late: isErrHandlersFixed was true
\* when the goroutine last stored to a list.
Threads == 1..MaxThreads
Outside == [at |-> "outside", list |-> "none", handler |-> 0,
            last |-> NilPtr, tmp |-> NilPtr, wroteFlag |-> FALSE,
            late |-> FALSE]

Init ==
    /\ heap = <<>>
    /\ syncErrHandlers  = [head |-> NilPtr, last |-> NilPtr]
    /\ asyncErrHandlers = [head |-> NilPtr, last |-> NilPtr]
    /\ isErrHandlersFixed = FALSE
    /\ pc = "idle"
    /\ e = Ok
    /\ tm = 0
    /\ item = NilPtr
    /\ inFn = NoFn
    /\ now = 0
    /\ calls = 0
    /\ goroutines = <<>>
    /\ ran = {}
    /\ syncLog = <<>>
    /\ chain = <<>>
    /\ fnLog = <<>>
    /\ newArgs = NoArgs
    /\ regLog = <<>>
    /\ lastOp = "none"
    /\ kept = NoKept
    /\ query = NoQuery
    /\ threads = [t \in Threads |-> Outside]
    /\ made = <<>>

\* ------------------------------------------------------------ registration
\* &errHandlerListItem{handler, nil}
NewItem(handler) == [handler |-> handler, next |-> NilPtr]

\* Mutant: the old last item is not linked to the new one.
HeapAfterAdd_NoLink(list, handler) == Append(heap, NewItem(handler))

\* Lines 34-43 (and 55-64) on the heap: the new item is allocated and the old
\* last item, if any, is linked to it.
HeapAfterAdd(list, handler) ==
    LET addr == Len(heap) + 1
        h1   == Append(heap, NewItem(handler))
    IN  IF list.last # NilPtr
        THEN [h1 EXCEPT ![list.last].next = addr]
        ELSE h1

\* Lines 34-43 (and 55-64) on the list: last is the new item, head too when
\* the list was empty.
ListAfterAdd(list) ==
    LET addr == Len(heap) + 1
    IN  [head |-> IF list.head = NilPtr THEN addr ELSE list.head,
         last |-> addr]

\* Mutant: the Add...ErrHandler functions without their first statement.
AddIsIgnored_Never == FALSE

\* The guard of lines 30-32 and 51-53.
AddIsIgnored == isErrHandlersFixed

AddSyncErrHandler(handler) ==
    /\ pc = "idle"
    /\ lastOp' = "AddSyncErrHandler"
    /\ IF AddIsIgnored
       THEN UNCHANGED registry
       ELSE /\ Len(heap) < MaxItems
            /\ heap' = HeapAfterAdd(syncErrHandlers, handler)
            /\ syncErrHandlers' = ListAfterAdd(syncErrHandlers)
            /\ UNCHANGED <<asyncErrHandlers, isErrHandlersFixed>>
    /\ regLog' = IF isErrHandlersFixed
                 THEN regLog
                 ELSE Append(regLog, [list |-> "sync", handler |-> handler])
    /\ chain' = <<>>
    /\ fnLog' = <<>>
    /\ newArgs' = NoArgs
    /\ UNCHANGED <<frame, logs, now, calls>>
    /\ UNCHANGED caller

AddAsyncErrHandler(handler) ==
    /\ pc = "idle"
    /\ lastOp' = "AddAsyncErrHandler"
    /\ IF AddIsIgnored
       THEN UNCHANGED registry
       ELSE /\ Len(heap) < MaxItems
            /\ heap' = HeapAfterAdd(asyncErrHandlers, handler)
            /\ asyncErrHandlers' = ListAfterAdd(asyncErrHandlers)
            /\ UNCHANGED <<syncErrHandlers, isErrHandlersFixed>>
    /\ regLog' = IF isErrHandlersFixed
                 THEN regLog
                 ELSE Append(regLog, [list |-> "async", handler |-> handler])
    /\ chain' = <<>>
    /\ fnLog' = <<>>
    /\ newArgs' = NoArgs
    /\ UNCHANGED <<frame, logs, now, calls>>
    /\ UNCHANGED caller

\* Mutant: FixErrHandlers toggles the flag.
FixErrHandlers_Toggle ==
    /\ pc = "idle"
    /\ lastOp' = "FixErrHandlers"
    /\ isErrHandlersFixed' = ~isErrHandlersFixed
    /\ UNCHANGED <<heap, syncErrHandlers, asyncErrHandlers>>
    /\ chain' = <<>>
    /\ fnLog' = <<>>
    /\ newArgs' = NoArgs
    /\ UNCHANGED <<frame, logs, now, calls, regLog>>
    /\ UNCHANGED caller

FixErrHandlers ==
    /\ pc = "idle"
    /\ lastOp' = "FixErrHandlers"
    /\ isErrHandlersFixed' = TRUE
    /\ UNCHANGED <<heap, syncErrHandlers, asyncErrHandlers>>
    /\ chain' = <<>>
    /\ fnLog' = <<>>
    /\ newArgs' = NoArgs
    /\ UNCHANGED <<frame, logs, now, calls, regLog>>
    /\ UNCHANGED caller

\* -------------------------------------------------------------- Ok and New
\* The value the caller's current expression has produced so far.
Receiver == chain[Len(chain)].result

\* What a call adds to the expression when it returns v: New at line 246,
\* IfOkThen at lines 371 and 373.  fn is the IfOkThen function, or NoFn.
Returned(fn, v) ==
    [op |-> IF fn = NoFn THEN "New" ELSE "IfOkThen", fn |-> fn, result |-> v]

\* Mutant: notifyErr without the check of isErrHandlersFixed (lines 78-80).
NotifyReturnsEarly_NoFixCheck ==
    syncErrHandlers.head = NilPtr /\ asyncErrHandlers.head = NilPtr

\* notifyErr, lines 78-84: the two early returns.
NotifyReturnsEarly ==
    \/ ~isErrHandlersFixed
    \/ (syncErrHandlers.head = NilPtr /\ asyncErrHandlers.head = NilPtr)

\* Mutant: the first loop starts at the last item.
SyncLoopStart_FromLast == syncErrHandlers.last

\* Line 88: item := syncErrHandlers.head
SyncLoopStart == syncErrHandlers.head

\* Mutant: the second loop skips the first item.
AsyncLoopStart_SkipFirst ==
    IF asyncErrHandlers.head = NilPtr THEN NilPtr
    ELSE heap[asyncErrHandlers.head].next

\* Line 92: item := asyncErrHandlers.head
AsyncLoopStart == asyncErrHandlers.head

\* Lines 88 and 92: item = item.next
NextItem(it) == heap[it].next

\* The body of New from line 231 up to the first loop test of notifyErr.
\* fn is the IfOkThen function New is called from, or NoFn; base is the
\* expression the result belongs to.
EnterNew(reason, cause, site, captured, fn, base) ==
    LET v == NewErr(reason, cause, site, captured)
    IN  /\ newArgs' = [reason |-> reason, cause |-> cause, site |-> site,
                       captured |-> captured]
        /\ e' = v
        /\ isErrHandlersFixed => calls < MaxNew
        /\ calls' = IF isErrHandlersFixed THEN calls + 1 ELSE calls
        /\ IF NotifyReturnsEarly
           THEN /\ pc' = "idle"
                /\ inFn' = NoFn
                /\ chain' = Append(base, Returned(fn, v))
                /\ UNCHANGED <<tm, item>>
           ELSE /\ tm' = now
                /\ item' = SyncLoopStart
                /\ pc' = "sync"
                /\ inFn' = fn
                /\ chain' = base

\* func New(reason any, cause ...error) Err, called by the program itself.
New(reason, cause, site, captured) ==
    /\ pc = "idle"
    /\ lastOp' = "New"
    /\ fnLog' = <<>>
    /\ EnterNew(reason, cause, site, captured, NoFn, <<>>)
    /\ UNCHANGED <<registry, logs, now, regLog>>
    /\ UNCHANGED caller

\* Mutant: Ok notifies the handlers of the value it returns.
CallOk_Notifies ==
    /\ pc = "idle"
    /\ lastOp' = "Ok"
    /\ fnLog' = <<>>
    /\ EnterNew(Nil, <<>>, NotifySite, FALSE, NoFn, <<>>)
    /\ UNCHANGED <<registry, logs, now, regLog>>
    /\ UNCHANGED caller

\* func Ok() Err
CallOk ==
    /\ pc = "idle"
    /\ lastOp' = "Ok"
    /\ chain' = <<[op |-> "Ok", fn |-> NoFn, result |-> Ok]>>
    /\ fnLog' = <<>>
    /\ newArgs' = NoArgs
    /\ UNCHANGED <<registry, frame, logs, now, calls, regLog>>
    /\ UNCHANGED caller

\* --------------------------------------------------------------- notifyErr
\* Mutant: the time is read again for every handler.
Invocation_ReadsClockAgain ==
    [call |-> calls, item |-> item, handler |-> heap[item].handler,
     e |-> e, tm |-> now]

\* What a handler is called with, and for which item of which New call
\* (counted from FixErrHandlers on).
Invocation == [call |-> calls, item |-> item, handler |-> heap[item].handler,
               e |-> e, tm |-> tm]

Event(ev, inv) == [ev |-> ev, call |-> inv.call, item |-> inv.item,
                   handler |-> inv.handler, e |-> inv.e, tm |-> inv.tm]

\* Line 89: item.handler(e, tm) is entered.
SyncCall ==
    /\ pc = "sync"
    /\ item # NilPtr
    /\ syncLog' = Append(syncLog, Event("call", Invocation))
    /\ pc' = "handler"
    /\ UNCHANGED <<registry, e, tm, item, inFn, goroutines, ran, expr,
                   now, calls, lastOp, regLog>>
    /\ UNCHANGED caller

\* Line 89: item.handler(e, tm) returns; line 88: item = item.next.
SyncReturn ==
    /\ pc = "handler"
    /\ syncLog' = Append(syncLog, Event("return", Invocation))
    /\ item' = NextItem(item)
    /\ pc' = "sync"
    /\ UNCHANGED <<registry, e, tm, inFn, goroutines, ran, expr,
                   now, calls, lastOp, regLog>>
    /\ UNCHANGED caller

\* Line 88: item == nil ends the first loop; line 92 starts the second.
SyncDone ==
    /\ pc = "sync"
    /\ item = NilPtr
    /\ item' = AsyncLoopStart
    /\ pc' = "async"
    /\ UNCHANGED <<registry, e, tm, inFn, logs, expr, now, calls, lastOp, regLog>>
    /\ UNCHANGED caller

\* Line 93: go item.handler(e, tm); line 92: item = item.next.
AsyncGo ==
    /\ pc = "async"
    /\ item # NilPtr
    /\ goroutines' = Append(goroutines, Invocation)
    /\ item' = NextItem(item)
    /\ UNCHANGED <<registry, pc, e, tm, inFn, syncLog, ran, expr,
                   now, calls, lastOp, regLog>>
    /\ UNCHANGED caller

\* Mutant: notifyErr returns only when the goroutines it started have run.
NotifyDone_WaitsForAsync ==
    /\ pc = "async"
    /\ item = NilPtr
    /\ \A g \in DOMAIN goroutines : g \in ran
    /\ pc' = "idle"
    /\ inFn' = NoFn
    /\ chain' = Append(chain, Returned(inFn, e))
    /\ UNCHANGED <<registry, e, tm, item, logs, fnLog, newArgs, now, calls, lastOp, regLog>>
    /\ UNCHANGED caller

\* Line 92: item == nil ends notifyErr; New returns e at line 246.
NotifyDone ==
    /\ pc = "async"
    /\ item = NilPtr
    /\ pc' = "idle"
    /\ inFn' = NoFn
    /\ chain' = Append(chain, Returned(inFn, e))
    /\ UNCHANGED <<registry, e, tm, item, logs, fnLog, newArgs, now, calls, lastOp, regLog>>
    /\ UNCHANGED caller

\* A goroutine started at line 93 runs its handler.
AsyncRun(g) ==
    /\ g \in DOMAIN goroutines
    /\ g \notin ran
    /\ ran' = ran \cup {g}
    /\ UNCHANGED <<registry, frame, goroutines, syncLog, expr, now, calls, lastOp, regLog>>
    /\ UNCHANGED caller

\* The wall clock advances.  Only the order and equality of the readings
\* matter, so the clock runs at most one tick ahead of the latest reading
\* (line 86).
Tick ==
    /\ now = tm
    /\ now' = now + 1
    /\ UNCHANGED <<registry, frame, logs, expr, calls, lastOp, regLog>>
    /\ UNCHANGED caller

\* ---------------------------------------------------------------- IfOkThen
\* Mutant: IfOkThen without the test of line 370.
RunsFn_Always(recv) == TRUE

\* Line 370: if e.IsOk()
RunsFn(recv) == IsOk(recv)

\* func (e Err) IfOkThen(fn func() Err) Err, on the expression's value.
IfOkThen(fn) ==
    /\ pc = "idle"
    /\ chain # <<>>
    /\ Len(chain) <= MaxChain
    /\ lastOp' = "IfOkThen"
    /\ IF RunsFn(Receiver)
       THEN /\ fnLog' = Append(fnLog, [step |-> Len(chain) + 1, fn |-> fn])
            /\ IF fn.kind = "ok"
               THEN /\ chain' = Append(chain, Returned(fn, Ok))
                    /\ UNCHANGED <<frame, calls, newArgs>>
               ELSE \E captured \in BOOLEAN :
                        EnterNew(fn.reason, <<>>, FnSite, captured, fn, chain)
       ELSE /\ chain' = Append(chain, Returned(fn, Receiver))
            /\ UNCHANGED <<fnLog, frame, calls, newArgs>>
    /\ UNCHANGED <<registry, logs, now, regLog>>
    /\ UNCHANGED caller

\* The registry and its dispatch: registration, fixing, and New calls of one
\* call site whose location capture succeeds.
Next ==
    \/ AddSyncErrHandler(Closure(Len(regLog) + 1))
    \/ AddAsyncErrHandler(Closure(Len(regLog) + 1))
    \/ FixErrHandlers
    \/ CallOk
    \/ \E r \in Reasons : New(r, <<>>, NotifySite, TRUE)
    \/ SyncCall
    \/ SyncReturn
    \/ SyncDone
    \/ AsyncGo
    \/ NotifyDone
    \/ \E g \in DOMAIN goroutines : AsyncRun(g)
    \/ Tick

Spec == Init /\ [][Next]_vars

\* The Go scheduler runs every goroutine that has been started.
FairSpec ==
    Spec /\ \A g \in 1..(MaxItems * MaxNew) : WF_vars(AsyncRun(g))

\* The goroutine that called New keeps running and every synchronous handler
\* returns; nothing is assumed of the goroutines started at line 93, which
\* may never run or never finish.
NoWaitSpec ==
    /\ Spec
    /\ WF_vars(SyncCall)
    /\ WF_vars(SyncReturn)
    /\ WF_vars(SyncDone)
    /\ WF_vars(AsyncGo)
    /\ WF_vars(NotifyDone)

\* The registry and its dispatch with New calls of both call sites, with and
\* without a cause, the location captured or not.
DispatchNext ==
    \/ AddSyncErrHandler(Closure(Len(regLog) + 1))
    \/ AddAsyncErrHandler(Closure(Len(regLog) + 1))
    \/ FixErrHandlers
    \/ \E r \in Reasons : New(r, <<>>, NotifySite, TRUE)
    \/ \E r \in Reasons, c \in Errors, captured \in BOOLEAN :
           New(r, <<c>>, TestSite, captured)
    \/ SyncCall
    \/ SyncReturn
    \/ SyncDone
    \/ AsyncGo
    \/ NotifyDone
    \/ \E g \in DOMAIN goroutines : AsyncRun(g)
    \/ Tick

DispatchSpec == Init /\ [][DispatchNext]_vars

\* ------------------------------------------------- the Err value in use
\* A program that registers no handler and never fixes the registry, as every
\* program built without the tag github.sttk.errs.notify: statements
\* Ok()/New(...) followed by IfOkThen calls, with every shape of New's
\* arguments.
ValueNext ==
    \/ CallOk
    \/ \E r \in Reasons \cup {Nil}, c \in CauseArgs, s \in CallSites,
          captured \in BOOLEAN : New(r, c, s, captured)
    \/ \E f \in Fns : IfOkThen(f)

ValueSpec == Init /\ [][ValueNext]_vars

\* ------------------------------------------- an Err kept by the program
\* err := errs.New(...): the program keeps the value New has just returned.
Keep ==
    /\ pc = "idle"
    /\ lastOp = "New"
    /\ Len(chain) = 1
    /\ ~kept.held
    /\ kept' = [args |-> newArgs, e |-> chain[1].result, held |-> TRUE]
    /\ UNCHANGED <<registry, frame, logs, expr, now, calls, lastOp, regLog,
                   query, threads, made>>

\* A program that registers handlers and fixes the registry; before any
\* handler has been notified it calls New from one call site with or without
\* a reason, with or without a cause, the caller's location captured or not,
\* and keeps one of the values it gets; after that it calls New as the
\* program of Spec does.
KeepNext ==
    \/ AddSyncErrHandler(Closure(Len(regLog) + 1))
    \/ AddAsyncErrHandler(Closure(Len(regLog) + 1))
    \/ FixErrHandlers
    \/ CallOk
    \/ \E r \in Reasons \cup {Nil}, c \in {<<>>, <<"def">>},
          captured \in BOOLEAN :
           ~kept.held /\ calls = 0 /\ New(r, c, TestSite, captured)
    \/ \E r \in Reasons : kept.held /\ New(r, <<>>, NotifySite, TRUE)
    \/ SyncCall
    \/ SyncReturn
    \/ SyncDone
    \/ AsyncGo
    \/ NotifyDone
    \/ \E g \in DOMAIN goroutines : AsyncRun(g)
    \/ Keep

KeepSpec == Init /\ [][KeepNext]_vars

\* ------------------------------------------------ errors.Is and errors.As
\* err1, err2, ... hold Err values; every other name is a value of Shapes.
IsErrVar(x) == \E i \in DOMAIN made : VarNames[i] = x

ErrOf(x) == made[CHOOSE i \in DOMAIN made : VarNames[i] = x]

ShapeOf(x) == IF IsErrVar(x) THEN ErrShape ELSE Shapes[x]

\* The names of the values the program holds.
Held == {VarNames[i] : i \in DOMAIN made}

\* errN := the value of the statement's expression, Ok() or New(...).
Assign ==
    /\ pc = "idle"
    /\ Len(chain) = 1
    /\ query = NoQuery
    /\ Len(made) < MaxMade
    /\ made' = Append(made, chain[1].result)
    /\ chain' = <<>>
    /\ fnLog' = <<>>
    /\ newArgs' = NoArgs
    /\ UNCHANGED <<registry, frame, logs, now, calls, lastOp, regLog,
                   kept, query, threads>>

\* The order in which a build compares the fields of two structs: in source
\* order, or the fields that need no runtime call first.
FieldOrders == {"source", "cheap first"}

Truth(b) == IF b THEN "true" ELSE "false"

\* Mutant: an Err is equal to no Err but the one held in the same variable.
GoEq_ByVariable(a, b, order) == Truth(a = b)

\* a == b on two interface values: "true", "false", or "panic" when both hold
\* a value of one and the same dynamic type that cannot be compared.  Two Err
\* values are compared field by field, stopping at the first difference.
RECURSIVE GoEq(_, _, _)
GoEq(a, b, order) ==
    IF a = Nil \/ b = Nil THEN Truth(a = b)
    ELSE IF ShapeOf(a).dyn # ShapeOf(b).dyn THEN "false"
    ELSE IF ~ShapeOf(a).comparable THEN "panic"
    ELSE IF ~IsErrVar(a) THEN Truth(a = b)
    ELSE LET x == ErrOf(a)
             y == ErrOf(b)
             plain == x.file = y.file /\ x.line = y.line
             r == GoEq(x.reason, y.reason, order)
             c == GoEq(x.cause, y.cause, order)
         IN  IF order = "cheap first" /\ ~plain THEN "false"
             ELSE IF r # "true" THEN r
             ELSE IF c # "true" THEN c
             ELSE Truth(plain)

\* Mutant: Err has no method Unwrap.
HasUnwrap_Never(x) == FALSE

\* Whether the value named x has a method Unwrap() error: Err has (lines
\* 345-347), the other errors of Shapes have not.
HasUnwrap(x) == IsErrVar(x)

\* errors.Is(err, target) for non-nil err and target, none of whose types has
\* an Is method: compare, then follow Unwrap.
RECURSIVE Is(_, _, _)
Is(err, target, order) ==
    LET eq == IF ShapeOf(target).comparable
              THEN GoEq(err, target, order) ELSE "false"
    IN  IF eq # "false" THEN eq
        ELSE IF ~HasUnwrap(err) THEN "false"
        ELSE IF Unwrap(ErrOf(err)) = Nil THEN "false"
        ELSE Is(Unwrap(ErrOf(err)), target, order)

\* The types a target of errors.As points to.
TargetTypes ==
    {"errs.Err", "*errors.errorString", "errs_test.InvalidValueError"}

Untouched == "untouched"

\* errors.As(err, &target) with target of type T: the first value of the chain
\* whose type is assignable to T is stored in target.
RECURSIVE As(_, _)
As(err, T) ==
    IF ShapeOf(err).dyn = T THEN [ok |-> TRUE, target |-> err]
    ELSE IF ~HasUnwrap(err) THEN [ok |-> FALSE, target |-> Untouched]
    ELSE IF Unwrap(ErrOf(err)) = Nil THEN [ok |-> FALSE, target |-> Untouched]
    ELSE As(Unwrap(ErrOf(err)), T)

\* The program calls errors.Is(err, target) on values it has.
CallIs(err, target) ==
    /\ pc = "idle"
    /\ chain = <<>>
    /\ query = NoQuery
    /\ \E order \in FieldOrders :
           query' = [op |-> "Is", err |-> err, target |-> target,
                     out |-> Is(err, target, order)]
    /\ UNCHANGED <<registry, frame, logs, expr, now, calls, lastOp, regLog,
                   kept, threads, made>>

\* The program calls errors.As(err, &target) with target of type T.
CallAs(err, T) ==
    /\ pc = "idle"
    /\ chain = <<>>
    /\ query = NoQuery
    /\ query' = [op |-> "As", err |-> err, type |-> T, out |-> As(err, T)]
    /\ UNCHANGED <<registry, frame, logs, expr, now, calls, lastOp, regLog,
                   kept, threads, made>>

\* The reasons and the causes of the program of ChainSpec, and its two call
\* sites of New.
ChainReasons ==
    {"InvalidValue{foo, abc}", "&InvalidValue{foo, abc} (1)",
     "&InvalidValue{foo, abc} (2)", "[]string{a}", "errors.New(def) (1)"}

ChainCauses == {"errors.New(def) (1)"}

ChainSites == {TestSite, NotifySite}

\* A program that registers no handler: it builds Err values with Ok and New,
\* the reason and the cause of a New call being values it already has, holds
\* each of them in a variable, and then calls errors.Is or errors.As on the
\* one it built last.
ChainNext ==
    \/ Len(made) < MaxMade /\ chain = <<>> /\ query = NoQuery /\ CallOk
    \/ \E r \in ChainReasons \cup Held,
          c \in {<<>>} \cup {<<x>> : x \in ChainCauses \cup Held},
          s \in ChainSites :
           /\ Len(made) < MaxMade /\ chain = <<>> /\ query = NoQuery
           /\ New(r, c, s, TRUE)
    \/ Assign
    \/ \E t \in Held \cup ChainCauses :
           made # <<>> /\ CallIs(VarNames[Len(made)], t)
    \/ \E T \in TargetTypes :
           made # <<>> /\ CallAs(VarNames[Len(made)], T)

ChainSpec == Init /\ [][ChainNext]_vars

\* ---------------------------------------------------------------- Err.Error
\* What a call of Error gives: the string it returns, or a panic.
Panic == [panics |-> TRUE, text |-> ""]

Returns(s) == [panics |-> FALSE, text |-> s]

\* t.PkgPath(), '.' and t.Name(), the path and the dot written only if the
\* path is not empty.
QualifiedName(pkg, type) == IF Len(pkg) > 0 THEN pkg \o "." \o type ELSE type

\* The loop over the fields i..n of a struct reason: ", " before every field
\* but the first, then the field's name and value if the field is exported.
RECURSIVE WriteFields(_, _)
WriteFields(fields, i) ==
    IF i > Len(fields) THEN ""
    ELSE (IF i > 1 THEN ", " ELSE "")
         \o (IF fields[i].exported
             THEN fields[i].name \o ": " \o fields[i].text
             ELSE "")
         \o WriteFields(fields, i + 1)

\* What Error writes for the reason. v is the reflect.Value after Elem() was
\* applied to a pointer; Elem() of a nil pointer is the zero Value, of kind
\* Invalid, on which CanInterface panics.
WriteReason(r) ==
    IF r = Nil THEN Returns("nil")
    ELSE LET v == ShapeOf(r) IN
         IF v.kind # "struct"
         THEN IF v.kind = "invalid" THEN Panic ELSE Returns(v.text)
         ELSE Returns(QualifiedName(v.pkg, v.type)
                      \o (IF Len(v.fields) > 0
                          THEN " { " \o WriteFields(v.fields, 1) \o " }"
                          ELSE ""))

\* Mutant: the cause is never written.
WriteCause_Never(cause, text) == ""

\* The segment of the cause, text being what cause.Error() returned.
WriteCause(cause, text) ==
    IF cause # Nil THEN ", cause = " \o text ELSE ""

\* x.Error(), for x an Err or any other error.
RECURSIVE Error(_)
Error(x) ==
    IF ~IsErrVar(x) THEN Returns(Shapes[x].msg)
    ELSE LET this == ErrOf(x)
             r == WriteReason(Reason(this))
             c == IF Cause(this) # Nil THEN Error(Cause(this))
                  ELSE Returns("")
         IN  IF r.panics \/ c.panics THEN Panic
             ELSE Returns(QualifiedName(PkgErrs, "Err")
                          \o " { reason = " \o r.text
                          \o ", file = " \o File(this)
                          \o ", line = " \o ToString(Line(this))
                          \o WriteCause(Cause(this), c.text)
                          \o " }")

\* The program calls err.Error().
CallError(err) ==
    /\ pc = "idle"
    /\ chain = <<>>
    /\ query = NoQuery
    /\ query' = [op |-> "Error", err |-> err, out |-> Error(err)]
    /\ UNCHANGED <<registry, frame, logs, expr, now, calls, lastOp, regLog,
                   kept, threads, made>>

\* The reasons and the causes of the program of ErrorSpec: nil, a string, a
\* number, structs by value and through a pointer, pointers to a non-struct,
\* a nil pointer, a slice, and structs with unexported fields.
ErrorReasons ==
    {Nil, "abc", "123", "InvalidValue{foo, abc}",
     "&InvalidValue{foo, abc} (1)", "(*InvalidValue)(nil)", "&count",
     "&reason (nil error)", "[]string{a}", "NoFields{}", "hidden{1}",
     "Mixed{1, foo, 2}"}

ErrorCauses == {"errors.New(def) (1)", "InvalidValueError{bar, def}"}

\* A program that registers no handler: it builds Err values with Ok and New,
\* holds each of them in a variable, and calls Error on the one it built last.
ErrorNext ==
    \/ Len(made) < MaxMade /\ chain = <<>> /\ query = NoQuery /\ CallOk
    \/ \E r \in ErrorReasons \cup Held,
          c \in {<<>>} \cup {<<x>> : x \in ErrorCauses \cup Held} :
           /\ Len(made) < MaxMade /\ chain = <<>> /\ query = NoQuery
           /\ New(r, c, TestSite, TRUE)
    \/ Assign
    \/ made # <<>> /\ CallError(VarNames[Len(made)])

ErrorSpec == Init /\ [][ErrorNext]_vars

\* ----------------------------------- registration on several goroutines
\* The registry functions take no lock and use no atomic operation: each load
\* and each store of isErrHandlersFixed and of head, last and next is a step
\* of its own, and the steps of different goroutines interleave.
ListOf(l) == IF l = "sync" THEN syncErrHandlers ELSE asyncErrHandlers

Store(l, list) ==
    IF l = "sync"
    THEN syncErrHandlers' = list /\ UNCHANGED asyncErrHandlers
    ELSE asyncErrHandlers' = list /\ UNCHANGED syncErrHandlers

\* The goroutines between the check of the flag and the allocation.
Allocating == {u \in Threads : threads[u].at \in {"checked", "has last"}}

\* Mutant: the Add...ErrHandler functions never find the flag set.
FlagLoads_AlwaysFalse(t) == {FALSE}

\* What a load of isErrHandlersFixed by goroutine t can give. The load is not
\* ordered with a store made by another goroutine, so it gives the stored
\* value or the initial false; a goroutine sees its own store.
FlagLoads(t) ==
    IF threads[t].wroteFlag THEN {TRUE} ELSE {isErrHandlersFixed, FALSE}

ThreadReturns(t) ==
    threads' = [threads EXCEPT ![t] =
                   [@ EXCEPT !.at = "outside", !.list = "none", !.handler = 0,
                             !.last = NilPtr, !.tmp = NilPtr]]

OnlyThreads ==
    UNCHANGED <<frame, logs, expr, now, calls, lastOp, regLog, kept, query, made>>

\* Lines 30-32 (51-53): if isErrHandlersFixed { return }
AddCheck(t, l) ==
    /\ threads[t].at = "outside"
    /\ Len(heap) + Cardinality(Allocating) < MaxItems
    /\ \E fixed \in FlagLoads(t) :
           IF fixed
           THEN UNCHANGED threads
           ELSE threads' = [threads EXCEPT ![t] =
                               [@ EXCEPT !.at = "checked", !.list = l,
                                         !.handler = Closure(t)]]
    /\ UNCHANGED registry
    /\ OnlyThreads

\* Line 34 (55): last := syncErrHandlers.last
AddLoadLast(t) ==
    /\ threads[t].at = "checked"
    /\ threads' = [threads EXCEPT ![t] =
                      [@ EXCEPT !.at = "has last",
                                !.last = ListOf(threads[t].list).last]]
    /\ UNCHANGED registry
    /\ OnlyThreads

\* Line 35 (56): syncErrHandlers.last = &errHandlerListItem{handler, nil}
AddStoreLast(t) ==
    /\ threads[t].at = "has last"
    /\ heap' = Append(heap, NewItem(threads[t].handler))
    /\ Store(threads[t].list,
             [ListOf(threads[t].list) EXCEPT !.last = Len(heap) + 1])
    /\ threads' = [threads EXCEPT ![t] =
                      [@ EXCEPT !.at = "stored last",
                                !.late = isErrHandlersFixed]]
    /\ UNCHANGED isErrHandlersFixed
    /\ OnlyThreads

\* Lines 37-38 (58-59): if last != nil, syncErrHandlers.last is loaded.
AddLoadForNext(t) ==
    /\ threads[t].at = "stored last"
    /\ threads' = [threads EXCEPT ![t] =
                      IF threads[t].last # NilPtr
                      THEN [@ EXCEPT !.at = "has next",
                                     !.tmp = ListOf(threads[t].list).last]
                      ELSE [@ EXCEPT !.at = "linked"]]
    /\ UNCHANGED registry
    /\ OnlyThreads

\* Line 38 (59): last.next = the loaded value
AddStoreNext(t) ==
    /\ threads[t].at = "has next"
    /\ heap' = [heap EXCEPT ![threads[t].last].next = threads[t].tmp]
    /\ threads' = [threads EXCEPT ![t] =
                      [@ EXCEPT !.at = "linked", !.tmp = NilPtr,
                                !.late = isErrHandlersFixed]]
    /\ UNCHANGED <<syncErrHandlers, asyncErrHandlers, isErrHandlersFixed>>
    /\ OnlyThreads

\* Line 41 (62): if syncErrHandlers.head == nil; the function returns if not.
AddLoadHead(t) ==
    /\ threads[t].at = "linked"
    /\ IF ListOf(threads[t].list).head = NilPtr
       THEN threads' = [threads EXCEPT ![t] = [@ EXCEPT !.at = "head is nil"]]
       ELSE ThreadReturns(t)
    /\ UNCHANGED registry
    /\ OnlyThreads

\* Line 42 (63): syncErrHandlers.last is loaded.
AddLoadForHead(t) ==
    /\ threads[t].at = "head is nil"
    /\ threads' = [threads EXCEPT ![t] =
                      [@ EXCEPT !.at = "has head",
                                !.tmp = ListOf(threads[t].list).last]]
    /\ UNCHANGED registry
    /\ OnlyThreads

\* Line 42 (63): syncErrHandlers.head = the loaded value; the function
\* returns.
AddStoreHead(t) ==
    /\ threads[t].at = "has head"
    /\ Store(threads[t].list,
             [ListOf(threads[t].list) EXCEPT !.head = threads[t].tmp])
    /\ threads' = [threads EXCEPT ![t] =
                      [@ EXCEPT !.at = "outside", !.list = "none",
                                !.handler = 0, !.last = NilPtr,
                                !.tmp = NilPtr, !.late = isErrHandlersFixed]]
    /\ UNCHANGED <<heap, isErrHandlersFixed>>
    /\ OnlyThreads

\* Line 74: isErrHandlersFixed = true, on goroutine t.
ThreadFix(t) ==
    /\ threads[t].at = "outside"
    /\ isErrHandlersFixed' = TRUE
    /\ threads' = [threads EXCEPT ![t] = [@ EXCEPT !.wroteFlag = TRUE]]
    /\ UNCHANGED <<heap, syncErrHandlers, asyncErrHandlers>>
    /\ OnlyThreads

\* MaxThreads goroutines call AddSyncErrHandler, AddAsyncErrHandler and
\* FixErrHandlers with no synchronisation between them, while the main
\* goroutine calls New.
RaceNext ==
    \/ \E t \in Threads, l \in {"sync", "async"} : AddCheck(t, l)
    \/ \E t \in Threads : AddLoadLast(t)
    \/ \E t \in Threads : AddStoreLast(t)
    \/ \E t \in Threads : AddLoadForNext(t)
    \/ \E t \in Threads : AddStoreNext(t)
    \/ \E t \in Threads : AddLoadHead(t)
    \/ \E t \in Threads : AddLoadForHead(t)
    \/ \E t \in Threads : AddStoreHead(t)
    \/ \E t \in Threads : ThreadFix(t)
    \/ \E r \in Reasons : New(r, <<>>, NotifySite, TRUE)
    \/ SyncCall
    \/ SyncReturn
    \/ SyncDone
    \/ AsyncGo
    \/ NotifyDone
    \/ \E g \in DOMAIN goroutines : AsyncRun(g)

RaceSpec == Init /\ [][RaceNext]_vars

\* =================================================================== claims
\* The items registered in one list before FixErrHandlers, in registration
\* order: the k-th effective Add...ErrHandler call allocates item k.
RegisteredItems(list) ==
    SelectSeq([i \in 1..Len(regLog) |-> i], LAMBDA i : regLog[i].list = list)

\* A New call (of the program, not of an IfOkThen function) has returned.
NewHasReturned == pc = "idle" /\ chain # <<>> /\ chain[1].op = "New"

\* C1: while FixErrHandlers has not been called, no handler, synchronous or
\* asynchronous, is invoked or started, whatever has been registered and
\* however many New calls have been made.
C1_NoDispatchBeforeFix ==
    ~isErrHandlersFixed =>
        /\ syncLog = <<>>
        /\ goroutines = <<>>
        /\ ran = {}
        /\ pc = "idle"

\* C1 witness: New has returned with both kinds of handler registered and the
\* registry not fixed.
C1_Witness ==
    /\ ~isErrHandlersFixed
    /\ NewHasReturned
    /\ RegisteredItems("sync") # <<>>
    /\ RegisteredItems("async") # <<>>
    /\ syncLog = <<>>

\* The n-th entry syncLog must hold when every New call after FixErrHandlers
\* calls the registered synchronous handlers one after the other.
ExpectedSyncEvent(n) ==
    LET reg    == RegisteredItems("sync")
        within == ((n - 1) % (2 * Len(reg))) + 1
        it     == reg[(within + 1) \div 2]
    IN  [ev      |-> IF within % 2 = 1 THEN "call" ELSE "return",
         call    |-> ((n - 1) \div (2 * Len(reg))) + 1,
         item    |-> it,
         handler |-> regLog[it].handler]

SyncEvent(n) ==
    [ev |-> syncLog[n].ev, call |-> syncLog[n].call, item |-> syncLog[n].item,
     handler |-> syncLog[n].handler]

\* C2: after FixErrHandlers every New call calls each registered synchronous
\* handler exactly once, in registration order, each returning before the next
\* is called, and all have returned when New returns.
C2_SyncHandlersInOrder ==
    isErrHandlersFixed =>
        LET k == Len(RegisteredItems("sync"))
        IN  /\ \A n \in 1..Len(syncLog) :
                   k > 0 /\ SyncEvent(n) = ExpectedSyncEvent(n)
            /\ Len(syncLog) <= 2 * k * calls
            /\ pc \in {"idle", "async"} => Len(syncLog) = 2 * k * calls
            /\ pc = "handler" => Len(syncLog) % 2 = 1
            /\ pc = "sync" => Len(syncLog) % 2 = 0
            /\ (NewHasReturned /\ k > 0) =>
                   /\ syncLog[Len(syncLog)].e = chain[1].result
                   /\ syncLog[Len(syncLog)].call = calls

\* C2 witness: the second New call after FixErrHandlers has returned with two
\* synchronous handlers registered.
C2_Witness ==
    /\ isErrHandlersFixed
    /\ NewHasReturned
    /\ Len(RegisteredItems("sync")) = 2
    /\ calls = 2
    /\ Len(syncLog) = 8

\* The n-th goroutine that must have been started when every New call after
\* FixErrHandlers starts one goroutine per registered asynchronous handler.
ExpectedGoroutine(n) ==
    LET reg == RegisteredItems("async")
        it  == reg[((n - 1) % Len(reg)) + 1]
    IN  [call |-> ((n - 1) \div Len(reg)) + 1, item |-> it,
         handler |-> regLog[it].handler]

Goroutine(n) ==
    [call |-> goroutines[n].call, item |-> goroutines[n].item,
     handler |-> goroutines[n].handler]

\* The safety part of C3.
AsyncHandlersStarted ==
    isErrHandlersFixed =>
        LET k == Len(RegisteredItems("sync"))
            m == Len(RegisteredItems("async"))
        IN  /\ \A n \in 1..Len(goroutines) :
                   /\ m > 0
                   /\ Goroutine(n) = ExpectedGoroutine(n)
                   /\ Len(syncLog) >= 2 * k * goroutines[n].call
            /\ Len(goroutines) <= m * calls
            /\ pc = "idle" => Len(goroutines) = m * calls
            /\ pc \in {"sync", "handler"} => Len(goroutines) = m * (calls - 1)
            /\ ran \subseteq DOMAIN goroutines

\* C3: after FixErrHandlers every New call starts one goroutine for each
\* registered asynchronous handler, exactly once and only after the last
\* synchronous handler of that call has returned, and every goroutine started
\* eventually runs its handler (in no particular order).
C3_AsyncHandlersLaunched ==
    /\ []AsyncHandlersStarted
    /\ \A g \in 1..(MaxItems * MaxNew) :
           (g \in DOMAIN goroutines) ~> (g \in ran)

\* C3 witness: New has returned after calling a synchronous handler, and of
\* the two goroutines it started the later one has run and the earlier has not.
C3_Witness ==
    /\ NewHasReturned
    /\ syncLog # <<>>
    /\ \E i, j \in DOMAIN goroutines :
           /\ i < j
           /\ goroutines[i].call = goroutines[j].call
           /\ j \in ran
           /\ i \notin ran

\* The registry the Add...ErrHandler calls made before FixErrHandlers must
\* have built: item i holds the handler of the i-th call and is linked to the
\* next item registered in the same list.
ExpectedNext(i) ==
    LET later == {j \in (i + 1)..Len(regLog) : regLog[j].list = regLog[i].list}
    IN  IF later = {} THEN NilPtr
        ELSE CHOOSE j \in later : \A j2 \in later : j <= j2

ExpectedHeap ==
    [i \in 1..Len(regLog) |->
        [handler |-> regLog[i].handler, next |-> ExpectedNext(i)]]

ExpectedList(list) ==
    LET reg == RegisteredItems(list)
    IN  IF reg = <<>>
        THEN [head |-> NilPtr, last |-> NilPtr]
        ELSE [head |-> reg[1], last |-> reg[Len(reg)]]

RegisteredHandlers(list) ==
    {regLog[RegisteredItems(list)[n]].handler :
        n \in 1..Len(RegisteredItems(list))}

\* C4: once FixErrHandlers has been called the Add...ErrHandler calls change
\* nothing: both lists (head, last, every next link) are the ones built before
\* the fix, and a later New call invokes exactly the handlers registered before
\* the fix.
C4_AddAfterFixIgnored ==
    isErrHandlersFixed =>
        /\ heap = ExpectedHeap
        /\ syncErrHandlers = ExpectedList("sync")
        /\ asyncErrHandlers = ExpectedList("async")
        /\ pc = "idle" =>
               \A c \in 1..calls :
                   /\ {syncLog[n].handler :
                          n \in {x \in 1..Len(syncLog) : syncLog[x].call = c}}
                        = RegisteredHandlers("sync")
                   /\ {goroutines[n].handler :
                          n \in {x \in 1..Len(goroutines) : goroutines[x].call = c}}
                        = RegisteredHandlers("async")
                   /\ Cardinality({x \in 1..Len(syncLog) :
                          syncLog[x].call = c /\ syncLog[x].ev = "call"})
                        = Len(RegisteredItems("sync"))
                   /\ Cardinality({x \in 1..Len(goroutines) :
                          goroutines[x].call = c})
                        = Len(RegisteredItems("async"))

\* C4 witness: AddAsyncErrHandler has been called on a fixed registry that
\* holds handlers of both kinds and has already notified them.
C4_Witness ==
    /\ isErrHandlersFixed
    /\ lastOp = "AddAsyncErrHandler"
    /\ calls > 0
    /\ RegisteredItems("sync") # <<>>
    /\ RegisteredItems("async") # <<>>

\* C5: isErrHandlersFixed starts false, FixErrHandlers makes it true, no step
\* makes it false again, and FixErrHandlers on a fixed registry changes neither
\* the flag nor the lists.
C5_FixedIsLatch ==
    /\ ~isErrHandlersFixed
    /\ [][/\ isErrHandlersFixed => isErrHandlersFixed'
          /\ lastOp' = "FixErrHandlers" => isErrHandlersFixed'
          /\ (isErrHandlersFixed /\ lastOp' = "FixErrHandlers")
                => UNCHANGED registry]_vars

\* C5 witness: FixErrHandlers has been called again after a New call has
\* notified the handlers of a fixed registry.
C5_Witness ==
    /\ lastOp = "FixErrHandlers"
    /\ calls > 0
    /\ syncLog # <<>>
    /\ isErrHandlersFixed

\* A step in which the program calls Ok.
IsOkStep == lastOp' = "Ok" /\ (lastOp # "Ok" \/ chain' # chain)

\* C6: Ok changes nothing of the registry and invokes no handler, fixed
\* registry with handlers included, and returns the value with nil reason, nil
\* cause, empty file and line 0.
C6_OkHasNoEffect ==
    /\ [][IsOkStep =>
            UNCHANGED <<registry, frame, logs, now, calls, regLog>>]_vars
    /\ [](lastOp = "Ok" =>
            /\ Len(chain) = 1
            /\ chain[1].result.reason = Nil
            /\ chain[1].result.cause = Nil
            /\ chain[1].result.file = ""
            /\ chain[1].result.line = 0)

\* C6 witness: Ok has returned on a fixed registry holding handlers of both
\* kinds, after a New call that notified them.
C6_Witness ==
    /\ lastOp = "Ok"
    /\ isErrHandlersFixed
    /\ syncErrHandlers.head # NilPtr
    /\ asyncErrHandlers.head # NilPtr
    /\ calls > 0

\* ------------------------------------------------------ claims on IfOkThen
\* The number of times the i-th call of the expression invoked a function, and
\* the functions it invoked.
InvocationsAt(i) == Cardinality({k \in DOMAIN fnLog : fnLog[k].step = i})

InvokedAt(i) == {fnLog[k].fn : k \in {j \in DOMAIN fnLog : fnLog[j].step = i}}

\* What a function handed to IfOkThen returns: Ok(), or New(reason) at the
\* function's own call site, captured or not.
IsResultOf(v, fn) ==
    IF fn.kind = "ok"
    THEN v = [reason |-> Nil, cause |-> Nil, file |-> "", line |-> 0]
    ELSE /\ v.reason = fn.reason
         /\ v.cause = Nil
         /\ \/ v.file = "err_test.go" /\ v.line = FnSite.line
            \/ v.file = "" /\ v.line = 0

\* C7: e.IfOkThen(fn) invokes fn exactly once and returns fn's result when
\* e.IsOk() is true; when e.IsOk() is false it does not invoke fn and returns
\* a value equal to the receiver in reason, cause, file and line.
C7_IfOkThenRunsOrSkips ==
    \A i \in 2..Len(chain) :
        LET recv == chain[i - 1].result
            ret  == chain[i].result
        IN  /\ chain[i].op = "IfOkThen"
            /\ IsOk(recv) =>
                   /\ InvocationsAt(i) = 1
                   /\ InvokedAt(i) = {chain[i].fn}
                   /\ IsResultOf(ret, chain[i].fn)
            /\ ~IsOk(recv) =>
                   /\ InvocationsAt(i) = 0
                   /\ ret.reason = recv.reason
                   /\ ret.cause = recv.cause
                   /\ ret.file = recv.file
                   /\ ret.line = recv.line

\* C7 witness: one expression in which IfOkThen ran its function on an ok
\* receiver and then skipped the next function on the failed result.
C7_Witness ==
    /\ pc = "idle"
    /\ Len(chain) = 3
    /\ IsOk(chain[1].result)
    /\ ~IsOk(chain[2].result)
    /\ InvocationsAt(2) = 1
    /\ InvocationsAt(3) = 0
    /\ chain[3].result = chain[2].result

\* The expression is a pipeline Ok().IfOkThen(f1)...IfOkThen(fn).
IsOkPipeline == pc = "idle" /\ chain # <<>> /\ chain[1].op = "Ok"

\* The functions invoked so far were invoked in the order of the pipeline.
InvokedInOrder ==
    \A k \in 1..(Len(fnLog) - 1) : fnLog[k].step < fnLog[k + 1].step

\* C8 as stated: in a pipeline started by Ok() the functions are invoked in
\* order up to and including the first one that returns a value built by New,
\* no later function is invoked, and the result is that first value built by
\* New.
C8_StopsAtFirstNew ==
    IsOkPipeline =>
        /\ InvokedInOrder
        /\ \A i \in 2..Len(chain) :
               LET builtByNew == {j \in 2..(i - 1) : chain[j].fn.kind = "new"}
               IN  /\ builtByNew = {} => InvocationsAt(i) = 1
                   /\ builtByNew # {} =>
                          /\ InvocationsAt(i) = 0
                          /\ \E j \in builtByNew :
                                 /\ \A k \in builtByNew : j <= k
                                 /\ chain[i].result = chain[j].result

\* C8: in a pipeline started by Ok() the functions are invoked in order up to
\* and including the first one whose result has a non-nil reason, no later
\* function is invoked, and the result is that first value with a non-nil
\* reason, or the last function's result if there is none.  A function that
\* returns New(nil) does not stop the pipeline.
C8_StopsAtFirstReason ==
    IsOkPipeline =>
        /\ InvokedInOrder
        /\ \A i \in 2..Len(chain) :
               LET failed == {j \in 2..(i - 1) : chain[j].result.reason # Nil}
               IN  /\ failed = {} =>
                          /\ InvocationsAt(i) = 1
                          /\ InvokedAt(i) = {chain[i].fn}
                          /\ IsResultOf(chain[i].result, chain[i].fn)
                   /\ failed # {} =>
                          /\ InvocationsAt(i) = 0
                          /\ \E j \in failed :
                                 /\ \A k \in failed : j <= k
                                 /\ InvocationsAt(j) = 1
                                 /\ chain[i].result = chain[j].result

\* C8 witness: Ok().IfOkThen(f1).IfOkThen(f2).IfOkThen(f3) where f1 returned
\* New(nil), f2 returned New of a reason, and f3 was skipped.
C8_Witness ==
    /\ IsOkPipeline
    /\ Len(chain) = 4
    /\ chain[2].fn.kind = "new"
    /\ chain[2].result.reason = Nil
    /\ chain[3].result.reason # Nil
    /\ Len(fnLog) = 2
    /\ chain[4].result = chain[3].result

\* ------------------------------------------------- claims on the Err value
\* The program's latest call was New and has returned: chain[1].result is its
\* result and newArgs its arguments.
NewReturnedLast == pc = "idle" /\ lastOp = "New" /\ Len(chain) = 1

OkReturnedFirst == chain # <<>> /\ chain[1].op = "Ok"

C10_TwoStates ==
    \A i \in DOMAIN chain :
        LET v == chain[i].result
        IN  \/ v.reason = Nil /\ v.cause = Nil /\ v.file = "" /\ v.line = 0
            \/ v.reason # Nil

\* C10: Ok() is the value with nil reason, nil cause, empty file and line 0.
\* New(r, c...) is the value whose reason is r, nil included, whose cause is
\* the first cause argument or nil when none is given, and whose file and
\* line are the base name and line of the call site, or empty and 0 when the
\* location is not captured.  A value with a non-nil reason is built by New
\* only; file is empty exactly when line is 0.
C10_ValueIsItsArguments ==
    /\ OkReturnedFirst =>
           /\ chain[1].result.reason = Nil
           /\ chain[1].result.cause = Nil
           /\ chain[1].result.file = ""
           /\ chain[1].result.line = 0
    /\ NewReturnedLast =>
           LET v == chain[1].result
               path == newArgs.site.file
           IN  /\ v.reason = newArgs.reason
               /\ v.cause = IF newArgs.cause = <<>> THEN Nil
                            ELSE newArgs.cause[1]
               /\ newArgs.captured =>
                      v.file = path[Len(path)] /\ v.line = newArgs.site.line
               /\ ~newArgs.captured => v.file = "" /\ v.line = 0
    /\ \A i \in DOMAIN chain :
           LET v == chain[i].result
           IN  /\ v.file = "" <=> v.line = 0
               /\ v.reason # Nil =>
                      \/ chain[1].op = "New"
                      \/ \E j \in 2..i : chain[j].fn.kind = "new"

\* C10 witness: New(nil, cause) has returned a value with nil reason, the
\* cause, and the file and line of its call site.
C10_Witness ==
    /\ NewReturnedLast
    /\ chain[1].result.reason = Nil
    /\ chain[1].result.cause \in Errors
    /\ chain[1].result.file = "err_test.go"
    /\ chain[1].result.line = 52

\* ------------------------------------------- claims on a value that is kept
\* The cause New was given: its first cause argument, nil when there is none.
GivenCause(args) == IF args.cause = <<>> THEN Nil ELSE args.cause[1]

\* C11: e = New(r, c) has e.Reason() = r and e.Cause() = e.Unwrap() = c, nil
\* when no cause was given, and the value the program keeps gives the same
\* accessor results after every later New, Ok, registration, fix and dispatch.
C11_ErrIsNeverMutated ==
    /\ [](NewReturnedLast =>
            /\ Reason(chain[1].result) = newArgs.reason
            /\ Cause(chain[1].result) = GivenCause(newArgs)
            /\ Unwrap(chain[1].result) = GivenCause(newArgs))
    /\ [](kept.held =>
            /\ Reason(kept.e) = kept.args.reason
            /\ Cause(kept.e) = GivenCause(kept.args)
            /\ Unwrap(kept.e) = GivenCause(kept.args))
    /\ [][kept.held =>
            /\ Reason(kept'.e) = Reason(kept.e)
            /\ Cause(kept'.e) = Cause(kept.e)
            /\ Unwrap(kept'.e) = Unwrap(kept.e)
            /\ kept'.e = kept.e]_vars

\* C11 witness: the program keeps a value built with a reason and a cause, and
\* since then the registry was fixed and two New calls with other arguments
\* notified handlers of both kinds.
C11_Witness ==
    /\ kept.held
    /\ kept.args.reason # Nil
    /\ kept.args.cause # <<>>
    /\ Cause(kept.e) \in Errors
    /\ isErrHandlersFixed
    /\ pc = "idle"
    /\ calls = MaxNew
    /\ newArgs # kept.args
    /\ syncLog # <<>>
    /\ ran # {}

\* The handlers of the latest New call were handed v: the synchronous ones
\* were called with it and have returned, the asynchronous ones were started
\* with it.
NotifiedOf(v) ==
    LET k == Len(RegisteredItems("sync"))
        m == Len(RegisteredItems("async"))
    IN  /\ Len(syncLog) >= 2 * k
        /\ \A n \in (Len(syncLog) - 2 * k + 1)..Len(syncLog) :
               syncLog[n].e = v /\ syncLog[n].call = calls
        /\ Len(goroutines) >= m
        /\ \A n \in (Len(goroutines) - m + 1)..Len(goroutines) :
               goroutines[n].e = v /\ goroutines[n].call = calls

\* C17: New returns a constructed value whether or not the caller's location
\* is captured: captured, File() is the base name of the caller's file and
\* Line() the line of the call; not captured, File() is empty and Line() is 0;
\* in both cases the reason and the cause are stored and the handlers of a
\* fixed registry are notified of the value.
C17_NewAlwaysConstructs ==
    NewReturnedLast =>
        LET v    == chain[1].result
            path == newArgs.site.file
        IN  /\ Reason(v) = newArgs.reason
            /\ Cause(v) = GivenCause(newArgs)
            /\ newArgs.captured =>
                   File(v) = path[Len(path)] /\ Line(v) = newArgs.site.line
            /\ ~newArgs.captured => File(v) = "" /\ Line(v) = 0
            /\ isErrHandlersFixed => NotifiedOf(v)

\* C17 witness: New has returned a value with reason and cause but no file and
\* line, after notifying handlers of both kinds of it.
C17_Witness ==
    /\ NewReturnedLast
    /\ ~newArgs.captured
    /\ chain[1].result.reason # Nil
    /\ chain[1].result.cause # Nil
    /\ chain[1].result.file = ""
    /\ isErrHandlersFixed
    /\ syncLog # <<>>
    /\ goroutines # <<>>

\* --------------------------------------- claims on errors.Is and errors.As
\* The cause chain of the value named x, x first.
RECURSIVE ChainOf(_)
ChainOf(x) ==
    IF IsErrVar(x) /\ ErrOf(x).cause # Nil
    THEN <<x>> \o ChainOf(ErrOf(x).cause)
    ELSE <<x>>

Members(x) == {ChainOf(x)[i] : i \in DOMAIN ChainOf(x)}

\* Two names stand for one and the same value: the same pointer, the same
\* contents of a value type, Err values with the same four fields.
RECURSIVE Same(_, _)
Same(a, b) ==
    IF a = Nil \/ b = Nil THEN a = b
    ELSE IF IsErrVar(a) # IsErrVar(b) THEN FALSE
    ELSE IF ~IsErrVar(a) THEN a = b
    ELSE /\ Same(ErrOf(a).reason, ErrOf(b).reason)
         /\ Same(ErrOf(a).cause, ErrOf(b).cause)
         /\ ErrOf(a).file = ErrOf(b).file
         /\ ErrOf(a).line = ErrOf(b).line

\* The value named x is, or holds as reason or cause at any depth, a value of
\* a type that == cannot compare.
RECURSIVE HoldsUncomparable(_)
HoldsUncomparable(x) ==
    IF x = Nil THEN FALSE
    ELSE IF IsErrVar(x)
    THEN HoldsUncomparable(ErrOf(x).reason) \/ HoldsUncomparable(ErrOf(x).cause)
    ELSE ~Shapes[x].comparable

\* target is e itself or a member of e's cause chain.
IsMember(target, err) == \E m \in Members(err) : Same(m, target)

\* C12 as stated: errors.Is(e, x) is true when x is e itself, the cause e was
\* built with, or the cause of a cause, and false when x is neither e nor a
\* member of e's cause chain.
C12_IsFollowsCauses ==
    query.op = "Is" =>
        /\ query.target = query.err => query.out = "true"
        /\ IsMember(query.target, query.err) => query.out = "true"
        /\ ~IsMember(query.target, query.err) => query.out = "false"

\* e1 and e2 are the results of two New calls and e2 is no member of the
\* cause chain e1 was built with.
SeparateNewCalls(e1, e2) ==
    /\ IsErrVar(e1) /\ IsErrVar(e2)
    /\ e1 # e2
    /\ ErrOf(e1).line # 0 /\ ErrOf(e2).line # 0
    /\ \A i \in 2..Len(ChainOf(e1)) : ~Same(ChainOf(e1)[i], e2)

C14_AsFindsFirstOfType ==
    query.op = "As" =>
        LET members == ChainOf(query.err)
            ofType  == {i \in DOMAIN members :
                           ShapeOf(members[i]).dyn = query.type}
        IN  /\ query.type = "errs.Err" =>
                   query.out.ok /\ query.out.target = query.err
            /\ ofType # {} =>
                   /\ query.out.ok
                   /\ \E i \in ofType :
                          /\ \A j \in ofType : i <= j
                          /\ query.out.target = members[i]
            /\ ofType = {} =>
                   ~query.out.ok /\ query.out.target = Untouched

\* C14 witness: errors.As found the *errors.errorString at the end of a chain
\* of three values, two of them Err.
C14_Witness ==
    /\ query.op = "As"
    /\ query.type = "*errors.errorString"
    /\ Len(ChainOf(query.err)) = 3
    /\ query.out.ok
    /\ query.out.target = ChainOf(query.err)[3]

\* C19 as stated: errors.Is(e, x) is false when x is the reason of e and no
\* member of the cause chain e was built with.
C19_IsSkipsReason ==
    (/\ query.op = "Is"
     /\ IsErrVar(query.err)
     /\ ErrOf(query.err).reason = query.target
     /\ \A i \in 2..Len(ChainOf(query.err)) :
            ~Same(ChainOf(query.err)[i], query.target))
        => query.out = "false"

\* ------------------------------------------------------- claims on Err.Error
\* The canonical form of the Err held in x around a reason rendered as R: the
\* cause segment is present exactly when the cause is not nil and holds the
\* cause's own string, which for a cause that is an Err is its canonical form.
RECURSIVE Canonical(_, _)
Canonical(x, R) ==
    IF ~IsErrVar(x) THEN Shapes[x].msg
    ELSE "github.com/sttk/errs.Err { reason = " \o R
         \o ", file = " \o ErrOf(x).file
         \o ", line = " \o ToString(ErrOf(x).line)
         \o (IF ErrOf(x).cause = Nil THEN ""
             ELSE ", cause = "
                  \o Canonical(ErrOf(x).cause,
                               IF IsErrVar(ErrOf(x).cause)
                               THEN WriteReason(ErrOf(ErrOf(x).cause).reason).text
                               ELSE ""))
         \o " }"

\* C15: a call of Error that returns gives "<pkg path>.Err { reason = R,
\* file = F, line = L", then ", cause = C" exactly when the cause is not nil,
\* then " }", where R is nil for a nil reason, F and L are the stored file and
\* line, and C is the cause's own Error() string, of the same form when the
\* cause is an Err.
C15_ErrorIsCanonical ==
    (query.op = "Error" /\ ~query.out.panics)
        => /\ query.out.text =
                  Canonical(query.err,
                            IF ErrOf(query.err).reason = Nil THEN "nil"
                            ELSE WriteReason(ErrOf(query.err).reason).text)
           /\ Len(query.out.text) > 0

\* C15 witness: Error was called on an Err with a nil reason whose cause is an
\* Err whose cause is an error, and returned two nested blocks.
C15_Witness ==
    /\ query.op = "Error"
    /\ made = <<[reason |-> "abc", cause |-> "errors.New(def) (1)",
                 file |-> "err_test.go", line |-> 60],
                [reason |-> Nil, cause |-> "err1",
                 file |-> "err_test.go", line |-> 60]>>
    /\ query.err = "err2"
    /\ query.out =
           Returns("github.com/sttk/errs.Err { reason = nil, file = err_test.go, "
                   \o "line = 60, cause = github.com/sttk/errs.Err { reason = abc, "
                   \o "file = err_test.go, line = 60, cause = def } }")

\* The exported fields of a struct as "F1: v1, F2: v2, ...".
RECURSIVE Listed(_)
Listed(fields) ==
    IF fields = <<>> THEN ""
    ELSE Head(fields).name \o ": " \o Head(fields).text
         \o (IF Len(fields) > 1 THEN ", " ELSE "")
         \o Listed(Tail(fields))

ExportedOf(fields) == SelectSeq(fields, LAMBDA f : f.exported)

\* C16 as stated: a struct reason is rendered as its qualified type name and
\* " { F1: v1, F2: v2, ... }" listing the exported fields only, with one ", "
\* between listed fields, and as the qualified type name alone when no field
\* is exported.
C16_StructListsExportedFields ==
    (/\ query.op = "Error"
     /\ ~query.out.panics
     /\ ErrOf(query.err).reason # Nil
     /\ ShapeOf(ErrOf(query.err).reason).kind = "struct")
        => LET v == ShapeOf(ErrOf(query.err).reason)
               R == (IF Len(v.pkg) > 0 THEN v.pkg \o "." ELSE "") \o v.type
                    \o (IF ExportedOf(v.fields) = <<>> THEN ""
                        ELSE " { " \o Listed(ExportedOf(v.fields)) \o " }")
           IN  query.out.text = Canonical(query.err, R)

\* C18 as stated: Error returns a string, without panicking, for every Err
\* built by Ok or New, whatever the reason.
C18_ErrorNeverPanics ==
    query.op = "Error" => ~query.out.panics

\* ------------------------------------- claims on concurrent registration
\* The two handler lists: head and last of each, and the items with their
\* next links.
HandlerLists == <<heap, syncErrHandlers, asyncErrHandlers>>

\* C20 as stated: once isErrHandlersFixed is true no step changes a handler
\* list, however the loads and stores of AddSyncErrHandler,
\* AddAsyncErrHandler, FixErrHandlers and New of several goroutines
\* interleave.
C20_NoStepChangesFixedLists ==
    [][isErrHandlersFixed => HandlerLists' = HandlerLists]_vars

\* C20 amended: once isErrHandlersFixed is true, a handler list is changed
\* only by a store of an Add...ErrHandler call that loaded the flag as false,
\* on a goroutine other than one that called FixErrHandlers: New and
\* FixErrHandlers change no list, a goroutine that has called FixErrHandlers
\* never gets past the check of the flag, and once every registering
\* goroutine has done so the lists stay as they are.
C20_OnlyUnorderedAddChangesFixedLists ==
    /\ [](\A t \in Threads :
              threads[t].wroteFlag
                  => isErrHandlersFixed /\ threads[t].at = "outside")
    /\ [][(isErrHandlersFixed /\ HandlerLists' # HandlerLists)
              => \E t \in Threads :
                     /\ ~threads[t].wroteFlag
                     /\ threads[t].at \in {"has last", "has next", "has head"}
                     /\ threads'[t] # threads[t]
                     /\ \A u \in Threads \ {t} : threads'[u] = threads[u]
                     /\ UNCHANGED <<frame, logs, expr, calls>>]_vars
    /\ [][(\A t \in Threads : threads[t].wroteFlag)
              => HandlerLists' = HandlerLists]_vars

\* C20 witness: FixErrHandlers was called on one goroutine, and another one
\* stored to a handler list while the flag was true.
C20_Witness ==
    /\ isErrHandlersFixed
    /\ \E t, u \in Threads :
           /\ threads[u].wroteFlag
           /\ ~threads[t].wroteFlag
           /\ threads[t].late
           /\ threads[t].at = "outside"
    /\ syncErrHandlers.head # NilPtr

\* ------------------------------------------------------ claims on dispatch
\* The goroutines started by the latest New call after FixErrHandlers.
StartedByLastNew == {g \in DOMAIN goroutines : goroutines[g].call = calls}

\* C21: New does not wait for the asynchronous handlers. Provided the calling
\* goroutine runs and every synchronous handler returns, a New call that has
\* entered notifyErr returns, whether or not the goroutines it started ever
\* run; the return at the end of the second loop is possible whatever has run.
C21_NewNeverWaitsForAsync ==
    /\ (pc # "idle") ~> (pc = "idle")
    /\ []((pc = "async" /\ item = NilPtr) => ENABLED NotifyDone)
    /\ [][(pc = "async" /\ pc' = "idle") => ran' = ran]_vars

\* C21 witness: New has returned after starting two goroutines, and none of
\* the goroutines started so far has run its handler.
C21_Witness ==
    /\ NewHasReturned
    /\ calls > 0
    /\ Cardinality(StartedByLastNew) = 2
    /\ ran = {}

\* ------------------------------------------------ claims on the two lists
\* The items met by following next from item it on heap h, at most fuel of
\* them.
RECURSIVE ItemsFrom(_, _, _)
ItemsFrom(h, it, fuel) ==
    IF it = NilPtr \/ fuel = 0 THEN <<>>
    ELSE <<it>> \o ItemsFrom(h, h[it].next, fuel - 1)

\* The handlers of a list, from its head on.
HandlersOf(h, list) ==
    LET items == ItemsFrom(h, list.head, Len(h) + 1)
    IN  [n \in 1..Len(items) |-> h[items[n]].handler]

\* The handlers the effective Add...ErrHandler calls gave to one list, in the
\* order of the calls.
AddedTo(list) ==
    LET reg == RegisteredItems(list)
    IN  [n \in 1..Len(reg) |-> regLog[reg[n]].handler]

IsPrefix(s1, s2) == Len(s1) <= Len(s2) /\ SubSeq(s2, 1, Len(s1)) = s1

WellFormed(list, name) ==
    LET items == ItemsFrom(heap, list.head, Len(heap) + 1)
    IN  /\ list.head = NilPtr <=> list.last = NilPtr
        /\ list.last # NilPtr => heap[list.last].next = NilPtr
        /\ Len(items) <= Len(heap)
        /\ list.head # NilPtr => items[Len(items)] = list.last
        /\ \A m, n \in DOMAIN items : m # n => items[m] # items[n]
        /\ HandlersOf(heap, list) = AddedTo(name)

\* C22: after any sequence of registration calls made one after the other,
\* each list is a well-formed singly linked list: head is nil iff last is nil,
\* last.next is nil, next from head reaches last, the handlers on the way are
\* the handlers added to that list before the fix, in registration order;
\* none is ever removed, and an addition to one list leaves the other as it
\* was.
C22_ListsAreWellFormed ==
    /\ [](WellFormed(syncErrHandlers, "sync")
          /\ WellFormed(asyncErrHandlers, "async"))
    /\ [][/\ IsPrefix(HandlersOf(heap, syncErrHandlers),
                      HandlersOf(heap', syncErrHandlers'))
          /\ IsPrefix(HandlersOf(heap, asyncErrHandlers),
                      HandlersOf(heap', asyncErrHandlers'))
          /\ lastOp' = "AddSyncErrHandler" =>
                 /\ asyncErrHandlers' = asyncErrHandlers
                 /\ HandlersOf(heap', asyncErrHandlers')
                      = HandlersOf(heap, asyncErrHandlers)
          /\ lastOp' = "AddAsyncErrHandler" =>
                 /\ syncErrHandlers' = syncErrHandlers
                 /\ HandlersOf(heap', syncErrHandlers')
                      = HandlersOf(heap, syncErrHandlers)
          /\ isErrHandlersFixed =>
                 UNCHANGED <<heap, syncErrHandlers, asyncErrHandlers>>]_vars

\* C22 witness: a synchronous, an asynchronous and again a synchronous handler
\* have been added, in this order, and the registry is not fixed.
C22_Witness ==
    /\ ~isErrHandlersFixed
    /\ lastOp = "AddSyncErrHandler"
    /\ Len(regLog) = 3
    /\ regLog[1].list = "sync"
    /\ regLog[2].list = "async"
    /\ regLog[3].list = "sync"
    /\ Len(HandlersOf(heap, syncErrHandlers)) = 2
    /\ Len(HandlersOf(heap, asyncErrHandlers)) = 1

\* ------------------------------------- claims on what the handlers receive
\* The <<e, tm>> pairs the handlers of the c-th New call after FixErrHandlers
\* have been given so far, synchronous handlers and started goroutines alike.
GivenIn(c) ==
    {<<syncLog[n].e, syncLog[n].tm>> :
        n \in {x \in DOMAIN syncLog : syncLog[x].call = c}}
    \cup {<<goroutines[n].e, goroutines[n].tm>> :
        n \in {x \in DOMAIN goroutines : goroutines[x].call = c}}

\* The value New builds from its arguments: the reason, the first cause or
\* nil, and the base name and line of the call site, or "" and 0 when the
\* location was not captured.
BuiltFrom(v, args) ==
    /\ v.reason = args.reason
    /\ v.cause = GivenCause(args)
    /\ v.file = (IF args.captured THEN args.site.file[Len(args.site.file)]
                 ELSE "")
    /\ v.line = (IF args.captured THEN args.site.line ELSE 0)

\* C23: within one dispatch every synchronous and every asynchronous handler
\* is given the same Err, equal in reason, cause, file and line to the value
\* the New call returns, and the same timestamp, read once when the dispatch
\* begins and before any handler of it is invoked.
C23_HandlersGetSameErrAndTime ==
    /\ [](\A c \in 1..calls : Cardinality(GivenIn(c)) <= 1)
    /\ []((isErrHandlersFixed /\ calls > 0 /\ lastOp = "New") =>
              /\ GivenIn(calls) \subseteq {<<e, tm>>}
              /\ BuiltFrom(e, newArgs)
              /\ tm <= now
              /\ (NewHasReturned /\ GivenIn(calls) # {}) =>
                     chain[1].result = e)
    /\ [][/\ (pc = "idle" /\ pc' # "idle") =>
                 /\ tm' = now
                 /\ GivenIn(calls') = {}
                 /\ UNCHANGED logs
          /\ pc # "idle" => (e' = e /\ tm' = tm)]_vars

\* C23 witness: a New call with a cause has returned after two synchronous
\* handlers and a goroutine were given its result and a timestamp behind the
\* clock.
C23_Witness ==
    /\ NewHasReturned
    /\ isErrHandlersFixed
    /\ lastOp = "New"
    /\ newArgs.cause # <<>>
    /\ Cardinality({n \in DOMAIN syncLog :
           syncLog[n].call = calls /\ syncLog[n].ev = "call"}) = 2
    /\ Cardinality({n \in DOMAIN goroutines : goroutines[n].call = calls}) = 1
    /\ GivenIn(calls) = {<<chain[1].result, tm>>}
    /\ calls = 2
    /\ tm > 0
    /\ now > tm

====
